---- MODULE Spec2Model ----
(***************************************************************************)
(* A model of the alpmbuild parser-combinator toolkit.                     *)
(*                                                                         *)
(* The repository holds several iterations of one design:                  *)
(*   - src/unnamed/part_000      File + FileSet (positions, diagnostics)   *)
(*   - src/main.cpp    1..765    File-backed Context + combinators         *)
(*   - src/main.cpp  767..1526   FileSet-backed Context + combinators      *)
(*   - src/parser.h              the QBuffer/Holder iteration              *)
(* The variable `variant` says which iteration a behaviour runs:           *)
(* "File" (main.cpp 1..765), "FileSet" (main.cpp 767..1526 and, for the    *)
(* position arithmetic, part_000).                                         *)
(*                                                                         *)
(* Bytes are one-character strings, a std::string is a sequence of bytes.  *)
(* Positions are 0-based as in the code; TLA+ sequences are 1-based, so    *)
(* the byte at position p of file f is f[p + 1].                           *)
(***************************************************************************)
EXTENDS Integers, Sequences, FiniteSets, TLC

VARIABLES
    variant,    \* which iteration of the code runs
    files,      \* FileSet::_files (contents, in list order); a lone File is <<f>>
    pos,        \* Context::_currentPos
    residue,    \* bytes that follow an unterminated read buffer, up to the first NUL
    junk,       \* the value of an uninitialised `rune` a failed stream read leaves
    failbit,    \* the files (by index) whose _stream has failbit set
    FailedAt,   \* Context::FailedAt of the QBuffer iteration (parser.h 10)
    op,         \* the last operation called
    arg,        \* its arguments
    out         \* what it returned

vars == <<variant, files, pos, residue, junk, failbit, FailedAt, op, arg, out>>

(***************************************************************************)
(* Bounds                                                                  *)
(***************************************************************************)
MaxLen == 3         \* longest file content enumerated
MaxFiles == 2       \* most files added to a FileSet
MaxAddLen == 2      \* longest content of a file added after the first
MaxSpan == 3        \* longest highlight span of a Diagnostic
MaxMainLen == 4     \* longest input given to the grammar of main
MaxRepeat == 2      \* largest n given to Repeated(n)

NL == "\n"
Alphabet == {"a", "b", NL}
FileAlphabet == {"a", NL}

RECURSIVE SeqsUpTo(_, _)
SeqsUpTo(S, n) ==
    IF n = 0 THEN {<<>>}
    ELSE LET shorter == SeqsUpTo(S, n - 1)
         IN  shorter \cup {Append(s, c) : s \in {t \in shorter : Len(t) = n - 1}, c \in S}

Min(a, b) == IF a < b THEN a ELSE b
Max(a, b) == IF a < b THEN b ELSE a

(***************************************************************************)
(* Outcomes of a call.  A C++ exception (throw -1, std::ios_base::failure, *)
(* std::bad_alloc, std::bad_variant_access) is the kind "Fatal"; a loop    *)
(* that never ends is "Diverge".                                           *)
(***************************************************************************)
THROW == -1

\* The rune read_pos returns at the end of the file (main.cpp:80): (char)EOF.
EOF == "EOF"

(***************************************************************************)
(* File (part_000 9..128, main.cpp 31..188 and 778..906)                   *)
(***************************************************************************)
length(f) == Len(f)

\* One `_stream.read(&cur, 1)` of a sequential scan: the byte at stream
\* position sp, or, past the end, `cur` as it was (the read fails and stores
\* nothing).
ScanByte(f, sp, cur) == IF sp < Len(f) THEN f[sp + 1] ELSE cur

\* A scan past the end of the file: the File-backed iteration of main.cpp
\* enables failbit exceptions (main.cpp:42), so the failed read throws; the
\* other iterations leave `cur` as it was.
ScanThrows(v, f, sp) == v = "File" /\ sp >= Len(f)

\* File::pos_to_line_col: the loop, from (stream_pos, line, col, cur).
RECURSIVE pos_to_line_col_loop(_, _, _, _, _, _, _)
pos_to_line_col_loop(v, f, p, stream_pos, line, col, cur) ==
    IF stream_pos < p
    THEN IF ScanThrows(v, f, stream_pos)
         THEN [k |-> "Fatal", line |-> line, col |-> col]
         ELSE LET c == ScanByte(f, stream_pos, cur)
              IN  IF c = NL
                  THEN pos_to_line_col_loop(v, f, p, stream_pos + 1, line + 1, 1, c)
                  ELSE pos_to_line_col_loop(v, f, p, stream_pos + 1, line, col + 1, c)
    ELSE [k |-> "ok", line |-> line, col |-> col]

\* pos_to_line_col counting columns from 0.
pos_to_line_col_ZeroBased(v, f, p, uninit) == pos_to_line_col_loop(v, f, p, 0, 1, 0, uninit)

pos_to_line_col(v, f, p, uninit) == pos_to_line_col_loop(v, f, p, 0, 1, 1, uninit)

\* File::line_col_to_pos once the scan is past the end of the file and every
\* read fails: `cur` stays `stale`, so each turn either starts a new line
\* (stale = '\n') or moves one column on.  The loop returns when the counters
\* meet (line, col) and otherwise never ends (short of the counters wrapping
\* round 2^64).
line_col_to_pos_stale(line, col, stream_pos, cur_line, cur_col, stale) ==
    IF stale = NL
    THEN IF col = 1 /\ line > cur_line
         THEN [k |-> "ok", pos |-> stream_pos + (line - cur_line)]
         ELSE [k |-> "Diverge", pos |-> stream_pos]
    ELSE IF line = cur_line /\ col > cur_col
         THEN [k |-> "ok", pos |-> stream_pos + (col - cur_col)]
         ELSE [k |-> "Diverge", pos |-> stream_pos]

\* File::line_col_to_pos: the loop, from (stream_pos, cur_line, cur_col, cur).
RECURSIVE line_col_to_pos_loop(_, _, _, _, _, _, _, _)
line_col_to_pos_loop(v, f, line, col, stream_pos, cur_line, cur_col, cur) ==
    IF line = cur_line /\ col = cur_col
    THEN [k |-> "ok", pos |-> stream_pos]
    ELSE IF ScanThrows(v, f, stream_pos)
    THEN [k |-> "Fatal", pos |-> stream_pos]
    ELSE IF stream_pos >= Len(f)
    THEN line_col_to_pos_stale(line, col, stream_pos, cur_line, cur_col, cur)
    ELSE LET c == ScanByte(f, stream_pos, cur)
         IN  IF c = NL
             THEN line_col_to_pos_loop(v, f, line, col, stream_pos + 1, cur_line + 1, 1, c)
             ELSE line_col_to_pos_loop(v, f, line, col, stream_pos + 1, cur_line, cur_col + 1, c)

line_col_to_pos(v, f, line, col, uninit) ==
    line_col_to_pos_loop(v, f, line, col, 0, 1, 1, uninit)

\* File::line_start_and_end_for_pos (part_000 98..127, main.cpp 144..173 and
\* 877..906): the second loop, from (stream_pos, cur).  It runs until `cur`
\* is '\n'; past the end of the file the reads fail and `cur` stays as it
\* was.  `end` is stream_pos - 1, kept here as an integer: for stream_pos = 0
\* the u64 holds 2^64 - 1.
RECURSIVE line_end_loop(_, _, _, _, _)
line_end_loop(v, f, stream_pos, start, cur) ==
    IF cur = NL THEN [k |-> "ok", start |-> start, end |-> stream_pos - 1]
    ELSE IF ScanThrows(v, f, stream_pos)
    THEN [k |-> "Fatal", start |-> start, end |-> stream_pos]
    ELSE IF stream_pos >= Len(f)
    THEN [k |-> "Diverge", start |-> start, end |-> stream_pos]
    ELSE line_end_loop(v, f, stream_pos + 1, start, ScanByte(f, stream_pos, cur))

\* The first loop, from (stream_pos, start, cur).
RECURSIVE line_start_loop(_, _, _, _, _, _)
line_start_loop(v, f, p, stream_pos, start, cur) ==
    IF stream_pos < p
    THEN IF ScanThrows(v, f, stream_pos)
         THEN [k |-> "Fatal", start |-> start, end |-> stream_pos]
         ELSE LET c == ScanByte(f, stream_pos, cur)
              IN  line_start_loop(v, f, p, stream_pos + 1,
                                  IF c = NL THEN (stream_pos + 1) + 1 ELSE start, c)
    ELSE line_end_loop(v, f, stream_pos, start, cur)

line_start_and_end_for_pos(v, f, p, uninit) == line_start_loop(v, f, p, 0, 1, uninit)

(***************************************************************************)
(* FileSet (part_000 136..224, main.cpp 914..1008).  A File* is the index  *)
(* of the file in _files.                                                  *)
(***************************************************************************)
\* FileSet::_file_lengths, as add_file keeps it.
file_lengths(fs) == [i \in 1..Len(fs) |-> length(fs[i])]

RECURSIVE SumLen(_, _)
SumLen(fs, n) == IF n = 0 THEN 0 ELSE SumLen(fs, n - 1) + Len(fs[n])

TotalLength(fs) == SumLen(fs, Len(fs))

\* file_for_pos that gives a position at the end of a file to the next file.
RECURSIVE file_for_pos_loop_Strict(_, _, _, _)
file_for_pos_loop_Strict(lens, p, idx, total_sizes) ==
    IF idx > Len(lens) THEN THROW
    ELSE IF p < total_sizes + lens[idx] THEN idx
    ELSE file_for_pos_loop_Strict(lens, p, idx + 1, total_sizes + lens[idx])

\* FileSet::file_for_pos: the loop, from (idx, total_sizes); THROW is `throw -1`.
RECURSIVE file_for_pos_loop(_, _, _, _)
file_for_pos_loop(lens, p, idx, total_sizes) ==
    IF idx > Len(lens) THEN THROW
    ELSE IF p <= total_sizes + lens[idx] THEN idx
    ELSE file_for_pos_loop(lens, p, idx + 1, total_sizes + lens[idx])

file_for_pos(fs, p) == file_for_pos_loop(file_lengths(fs), p, 1, 0)

\* FileSet::map_to_local_file
RECURSIVE map_to_local_file_loop(_, _, _, _)
map_to_local_file_loop(lens, p, idx, total_sizes) ==
    IF idx > Len(lens) THEN THROW
    ELSE IF p <= total_sizes + lens[idx] THEN p - ((total_sizes + lens[idx]) - lens[idx])
    ELSE map_to_local_file_loop(lens, p, idx + 1, total_sizes + lens[idx])

map_to_local_file(fs, p) == map_to_local_file_loop(file_lengths(fs), p, 1, 0)

\* FileSet::map_from_local_file(file, pos): `file` is found by identity.
RECURSIVE map_from_local_file_loop(_, _, _, _, _)
map_from_local_file_loop(fs, file, x, idx, total_sizes) ==
    IF idx > Len(fs) THEN THROW
    ELSE IF idx = file THEN ((total_sizes + Len(fs[idx])) - Len(fs[idx])) + x
    ELSE map_from_local_file_loop(fs, file, x, idx + 1, total_sizes + Len(fs[idx]))

map_from_local_file(fs, file, x) == map_from_local_file_loop(fs, file, x, 1, 0)

\* add_file that puts the new file first.
add_file_Prepend(fs, f) == <<f>> \o fs

\* FileSet::add_file
add_file(fs, f) == Append(fs, f)

(***************************************************************************)
(* Reads.  E is the environment of a parse: [v |-> variant, fs |-> files,  *)
(* residue |-> ..., junk |-> ...].                                         *)
(***************************************************************************)
Env(v, fs, r, j) == [v |-> v, fs |-> fs, residue |-> r, junk |-> j]

\* File::read_pos.  main.cpp 73..87 runs with failbit exceptions enabled
\* (main.cpp:42): a get() at or past the end throws before the eof() test is
\* reached.  main.cpp 811..819 does not test the read: past the end `ret` is
\* returned uninitialised.  `eof` says that the stream read failed, which
\* sets failbit on the stream.
read_pos(E, f, p) ==
    IF p < Len(f) THEN [k |-> "ok", v |-> f[p + 1], eof |-> FALSE]
    ELSE IF E.v = "File" THEN [k |-> "Fatal", v |-> E.junk, eof |-> TRUE]
    ELSE [k |-> "ok", v |-> E.junk, eof |-> TRUE]

\* File::read_pos on the file fs[i] whose stream state is known: once failbit
\* is set, seekg and the read do nothing but set failbit again (and throw
\* where main.cpp:42 enabled the exception).
read_pos_on(E, fb, i, p) ==
    IF i \in fb
    THEN [k |-> IF E.v = "File" THEN "Fatal" ELSE "ok", v |-> E.junk, eof |-> TRUE]
    ELSE read_pos(E, E.fs[i], p)

\* The bytes of f in the half-open range [from, from + n), as far as the file goes.
Avail(f, from, n) == SubSeq(f, from + 1, Min(from + n, Len(f)))

\* File::read_span(from, to).  The buffer is not NUL-terminated, so the
\* std::string built from it runs on into `residue`.
\*   main.cpp 57..72: from == to reads the one byte at from; a short read
\*     sets failbit and throws.
\*   main.cpp 803..810 (part_000 34..41): to < from asks operator new[] for
\*     about 2^64 bytes, which throws; a short read leaves the rest of the
\*     buffer unwritten.
read_span(E, f, from, to) ==
    IF E.v = "File"
    THEN LET n == IF from = to THEN 1 ELSE to - from
         IN  IF from + n > Len(f)
             THEN [k |-> "Fatal", v |-> <<>>, eof |-> TRUE]
             ELSE [k |-> "ok", v |-> Avail(f, from, n) \o E.residue, eof |-> FALSE]
    ELSE IF to < from
         THEN [k |-> "Fatal", v |-> <<>>, eof |-> FALSE]
         ELSE [k |-> "ok", v |-> Avail(f, from, to - from) \o E.residue,
               eof |-> to > Len(f)]

\* FileSet::read_byte
read_byte(E, p) ==
    IF file_for_pos(E.fs, p) = THROW
    THEN [k |-> "Fatal", v |-> E.junk, eof |-> FALSE]
    ELSE read_pos(E, E.fs[file_for_pos(E.fs, p)], map_to_local_file(E.fs, p))

\* std::to_string(n).length(), for the line numbers the files here have.
to_string_length(n) == IF n < 10 THEN 1 ELSE 2

\* FileSet::render_diagnostic (part_000 210..223, main.cpp 994..1007) for the
\* highlight_span (start, end).  It returns what was computed and printed:
\* the line and column of both ends, the text of the line, `gutter` (the
\* width of "<startLine> | " before the text), `spaces` (the spaces printed
\* before the first caret) and `carets`.  endCol - startCol is a u64
\* difference: for endCol < startCol it wraps to about 2^64 and std::string
\* throws std::length_error.
render_diagnostic(E, start, end) ==
    LET fs == E.fs
        none == [k |-> "Fatal", startLine |-> 0, startCol |-> 0, endLine |-> 0, endCol |-> 0,
                 str |-> <<>>, gutter |-> 0, spaces |-> 0, carets |-> 0, eof |-> FALSE]
    IN  IF file_for_pos(fs, start) = THROW \/ file_for_pos(fs, end) = THROW THEN none
        ELSE
        LET sf == fs[file_for_pos(fs, start)]
            s == pos_to_line_col(E.v, sf, map_to_local_file(fs, start), E.junk)
            e == pos_to_line_col(E.v, fs[file_for_pos(fs, end)],
                                 map_to_local_file(fs, end), E.junk)
            ab == line_start_and_end_for_pos(E.v, sf, map_to_local_file(fs, start), E.junk)
            str == read_span(E, sf, ab.start, ab.end)
            got == [none EXCEPT !.startLine = s.line, !.startCol = s.col,
                                !.endLine = e.line, !.endCol = e.col,
                                !.eof = ~(ab.k = "ok" /\ ab.end + 1 <= Len(sf))]
        IN  IF ab.k # "ok" THEN [got EXCEPT !.k = ab.k]
            ELSE IF str.k # "ok" THEN got
            ELSE IF e.col < s.col
            THEN [got EXCEPT !.str = str.v, !.gutter = to_string_length(s.line) + 3,
                             !.spaces = (to_string_length(s.line) + 1) + s.col]
            ELSE [got EXCEPT !.k = "ok", !.str = str.v,
                             !.gutter = to_string_length(s.line) + 3,
                             !.spaces = (to_string_length(s.line) + 1) + s.col,
                             !.carets = e.col - s.col]

(***************************************************************************)
(* Context (main.cpp 190..238 over a File, 1010..1060 over a FileSet).     *)
(* Each operation returns [k, v, pos]: the outcome, the value and          *)
(* _currentPos afterwards.                                                 *)
(***************************************************************************)
current(E, cur) ==
    LET r == IF E.v = "File" THEN read_pos(E, E.fs[1], cur) ELSE read_byte(E, cur)
    IN  [k |-> r.k, v |-> r.v, pos |-> cur, eof |-> r.eof]

next(E, cur) == current(E, cur + 1)

goto_pos(E, cur, p) == [k |-> "ok", v |-> <<>>, pos |-> p]

seek(E, cur, offset) == [k |-> "ok", v |-> <<>>, pos |-> cur + offset]

\* read that moves _currentPos before it maps the end of the span.
read_AdvancesFirst(E, cur, amount) ==
    IF E.v = "File"
    THEN LET r == read_span(E, E.fs[1], cur, cur + amount)
         IN  [k |-> r.k, v |-> r.v, pos |-> cur, eof |-> r.eof]
    ELSE IF file_for_pos(E.fs, cur) = THROW \/ map_to_local_file(E.fs, cur + amount) = THROW
         THEN [k |-> "Fatal", v |-> <<>>, pos |-> cur + amount, eof |-> FALSE]
         ELSE LET r == read_span(E, E.fs[file_for_pos(E.fs, cur)],
                                 map_to_local_file(E.fs, cur),
                                 map_to_local_file(E.fs, cur + amount))
              IN  [k |-> r.k, v |-> r.v, pos |-> cur + amount, eof |-> r.eof]

\* Context::read(amount).  Over a File (233..237) the span is read and
\* _currentPos is left alone; over a FileSet (1054..1059) both ends are mapped
\* to local positions (each may throw) and _currentPos moves on by amount.
read(E, cur, amount) ==
    IF E.v = "File"
    THEN LET r == read_span(E, E.fs[1], cur, cur + amount)
         IN  [k |-> r.k, v |-> r.v, pos |-> cur, eof |-> r.eof]
    ELSE IF file_for_pos(E.fs, cur) = THROW \/ map_to_local_file(E.fs, cur + amount) = THROW
         THEN [k |-> "Fatal", v |-> <<>>, pos |-> cur, eof |-> FALSE]
         ELSE LET r == read_span(E, E.fs[file_for_pos(E.fs, cur)],
                                 map_to_local_file(E.fs, cur),
                                 map_to_local_file(E.fs, cur + amount))
              IN  [k |-> r.k, v |-> r.v, pos |-> IF r.k = "ok" THEN cur + amount ELSE cur,
                   eof |-> r.eof]

(***************************************************************************)
(* Parsers (main.cpp 299..693 and 1114..1461; the combinators of the two   *)
(* iterations are the same code).  A Parser<T>* is a tree:                 *)
(*   [t |-> "str", s |-> bytes]      [t |-> "spaces"]   [t |-> "ident"]    *)
(*   [t |-> "to_newline"]            [t |-> "map", p |-> P]                *)
(*   [t |-> "then", p |-> P, q |-> Q]    [t |-> "or", p |-> P, q |-> Q]    *)
(*   [t |-> "or_variant", p |-> P, q |-> Q]   (or_parse to std::variant)   *)
(*   [t |-> "between", p |-> P, q |-> Bracket]                             *)
(*   [t |-> "many", p |-> P]   [t |-> "attempt", p |-> P]                  *)
(*   [t |-> "mapN", ps |-> <<P1, ..., Pk>>]                                *)
(* parse(E, p, cur) is the call p->parse(ctx) with ctx at cur.  It returns *)
(* [k, v, e, pos, tr]: the kind of outcome ("Success", "Failure", or       *)
(* "Fatal" for an exception, "Diverge" for a loop that never returns), the *)
(* value, the Error, _currentPos afterwards, and the primitive parsers     *)
(* that were run, in order, each with the position it started at, the      *)
(* furthest position it moved the cursor to, and whether a stream read of  *)
(* it failed.                                                              *)
(***************************************************************************)
NoVal == <<>>
NoErr == [position |-> 0, messages |-> <<>>]

Success(v, p, tr) == [k |-> "Success", v |-> v, e |-> NoErr, pos |-> p, tr |-> tr]
Failure(e, p, tr) == [k |-> "Failure", v |-> NoVal, e |-> e, pos |-> p, tr |-> tr]
Fatal(p, tr) == [k |-> "Fatal", v |-> NoVal, e |-> NoErr, pos |-> p, tr |-> tr]
Diverge(p, tr) == [k |-> "Diverge", v |-> NoVal, e |-> NoErr, pos |-> p, tr |-> tr]

Returned(r) == r.k \in {"Success", "Failure"}
holds_failure(r) == r.k = "Failure"

Ran(leaf, s, at, to, eof) ==
    <<[leaf |-> leaf, s |-> s, at |-> at, to |-> to, eof |-> eof]>>

\* The mapper of map / N-ary map: an arbitrary function of the value(s).
Mapper(v) == <<"mapped", v>>

isspace(c) == c \in {" ", NL}
isalnum(c) == c \in {"a", "b", "c", "e", "k", "l", "u", "v", "x", "y", "z", "0", "1"}

\* str(s) (main.cpp 608..634, 1386..1412)
str(E, s, cur) ==
    LET rd == read(E, cur, Len(s))
    IN  IF rd.k = "Fatal" THEN Fatal(rd.pos, Ran("str", s, cur, rd.pos, rd.eof))
        ELSE IF Len(rd.v) < Len(s) \/ rd.v # s
        THEN Failure([position |-> cur,
                      messages |-> <<[tag |-> "UnexpectedString", val |-> rd.v],
                                     [tag |-> "ExpectedString", val |-> s]>>],
                     rd.pos, Ran("str", s, cur, rd.pos, rd.eof))
        ELSE Success(rd.v, rd.pos, Ran("str", s, cur, rd.pos, rd.eof))

\* The tests of the loop below, with a to_newline that also stops at ':'.
Takes_ColonEndsLine(leaf, c) ==
    CASE leaf = "spaces" -> isspace(c)
      [] leaf = "to_newline" -> c # NL /\ c # ":"
      [] leaf = "ident" -> isalnum(c) \/ c \in {"(", ")", "_"}

\* The loop shared by spaces, to_newline and ident: read current(); if the
\* byte is taken, keep it and call next(), else return what was kept.
\*   spaces (636..649, 1414..1425) takes isspace bytes and returns monostate;
\*   to_newline takes every byte but '\n' (651..672 also stops at EOF, which
\*     read_pos never returns: 1427..1444 has no such test);
\*   ident (674..693, 1446..1461) takes isalnum, '(', ')' and '_'.
Takes(leaf, c) ==
    CASE leaf = "spaces" -> isspace(c)
      [] leaf = "to_newline" -> c # NL
      [] leaf = "ident" -> isalnum(c) \/ c \in {"(", ")", "_"}

RECURSIVE scan_loop(_, _, _, _, _, _)
scan_loop(E, leaf, start, cur, ret, eof) ==
    LET c == current(E, cur)
        n == next(E, cur)
    IN  IF c.k = "Fatal" THEN Fatal(cur, Ran(leaf, <<>>, start, cur, eof \/ c.eof))
        ELSE IF ~Takes(leaf, c.v)
        THEN Success(IF leaf = "spaces" THEN <<>> ELSE ret, cur,
                     Ran(leaf, <<>>, start, cur, eof \/ c.eof))
        ELSE IF n.k = "Fatal"
        THEN Fatal(cur + 1, Ran(leaf, <<>>, start, cur + 1, eof \/ c.eof \/ n.eof))
        ELSE scan_loop(E, leaf, start, cur + 1, Append(ret, c.v), eof \/ c.eof \/ n.eof)

RECURSIVE parse(_, _, _)
RECURSIVE many_loop(_, _, _, _, _)
RECURSIVE mapN_fold(_, _, _, _, _, _, _, _)
RECURSIVE many_loop_ReturnsFailure(_, _, _, _, _)
RECURSIVE many_loop_AtLeastOne(_, _, _, _, _)
RECURSIVE many_loop_Rewinds(_, _, _, _, _)

\* Parser::map (321..333, 1132..1142)
map(E, p, cur) ==
    LET result == parse(E, p, cur)
    IN  IF result.k = "Success" THEN Success(Mapper(result.v), result.pos, result.tr)
        ELSE result

\* Parser::then (334..347, 1143..1153)
then(E, p, q, cur) ==
    LET result == parse(E, p, cur)
    IN  IF result.k # "Success" THEN result
        ELSE LET r2 == parse(E, q, result.pos)
             IN  [r2 EXCEPT !.tr = result.tr \o r2.tr]

\* Parser::or_parse, same type (348..358, 1154..1162)
or_parse(E, p, q, cur) ==
    LET result == parse(E, p, cur)
    IN  IF ~holds_failure(result) THEN result
        ELSE LET r2 == parse(E, q, result.pos)
             IN  [r2 EXCEPT !.tr = result.tr \o r2.tr]

\* Parser::or_parse to std::variant<T, F> (359..392, 1163..1192), statement
\* by statement.  (The last four statements do not compile once the template
\* is instantiated: an Error is pushed onto a list of ErrorMessage, whose
\* alternative is Error *, and assigned to a std::variant<T, F>.)
or_parse_variant(E, p, q, cur) ==
    LET result == parse(E, p, cur)
    IN  IF ~holds_failure(result) THEN result
        ELSE LET otherResult == parse(E, q, result.pos)
                 tr == result.tr \o otherResult.tr
             IN  IF ~holds_failure(otherResult) THEN [otherResult EXCEPT !.tr = tr]
                 ELSE Failure([position |-> otherResult.e.position,
                               messages |-> Append(otherResult.e.messages,
                                                   [tag |-> "Error", val |-> result.e])],
                              otherResult.pos, tr)

\* Parser::between (443..467, 1243..1262).  When the closing run fails the
\* code takes std::get<Error>(result) of the opening run's result, which then
\* holds a value: std::get throws std::bad_variant_access.
between(E, p, bracket, cur) ==
    LET result == parse(E, bracket, cur)
    IN  IF result.k # "Success" THEN result
        ELSE LET result2 == parse(E, p, result.pos)
                 tr2 == result.tr \o result2.tr
             IN  IF result2.k # "Success" THEN [result2 EXCEPT !.tr = tr2]
                 ELSE LET result3 == parse(E, bracket, result2.pos)
                          tr3 == tr2 \o result3.tr
                      IN  IF holds_failure(result3) THEN Fatal(result3.pos, tr3)
                          ELSE IF result3.k # "Success" THEN [result3 EXCEPT !.tr = tr3]
                          ELSE [result2 EXCEPT !.pos = result3.pos, !.tr = tr3]

\* many that reports the failure which ends the loop instead of the list.
many_loop_ReturnsFailure(E, p, cur, ret, tr) ==
    LET result == parse(E, p, cur)
        tr2 == tr \o result.tr
    IN  IF result.k # "Success" THEN [result EXCEPT !.tr = tr2]
        ELSE IF result.pos = cur THEN Diverge(cur, tr2)
        ELSE many_loop_ReturnsFailure(E, p, result.pos, Append(ret, result.v), tr2)

\* many that wants at least one value (many1).
many_loop_AtLeastOne(E, p, cur, ret, tr) ==
    LET result == parse(E, p, cur)
        tr2 == tr \o result.tr
    IN  IF holds_failure(result)
        THEN IF Len(ret) = 0 THEN [result EXCEPT !.tr = tr2]
             ELSE Success(ret, result.pos, tr2)
        ELSE IF result.k # "Success" THEN [result EXCEPT !.tr = tr2]
        ELSE IF result.pos = cur THEN Diverge(cur, tr2)
        ELSE many_loop_AtLeastOne(E, p, result.pos, Append(ret, result.v), tr2)

\* many that puts the cursor back where the failing run started.
many_loop_Rewinds(E, p, cur, ret, tr) ==
    LET result == parse(E, p, cur)
        tr2 == tr \o result.tr
    IN  IF holds_failure(result) THEN Success(ret, cur, tr2)
        ELSE IF result.k # "Success" THEN [result EXCEPT !.tr = tr2]
        ELSE IF result.pos = cur THEN Diverge(cur, tr2)
        ELSE many_loop_Rewinds(E, p, result.pos, Append(ret, result.v), tr2)

\* Parser::many (468..486, 1263..1276).  A run of p that succeeds without
\* moving the cursor is repeated for ever (p is a function of the cursor).
many_loop(E, p, cur, ret, tr) ==
    LET result == parse(E, p, cur)
        tr2 == tr \o result.tr
    IN  IF holds_failure(result) THEN Success(ret, result.pos, tr2)
        ELSE IF result.k # "Success" THEN [result EXCEPT !.tr = tr2]
        ELSE IF result.pos = cur THEN Diverge(cur, tr2)
        ELSE many_loop(E, p, result.pos, Append(ret, result.v), tr2)

many(E, p, cur) == many_loop(E, p, cur, <<>>, <<>>)

\* attempt without the goto_pos on failure.
attempt_NoRestore(E, p, cur) == parse(E, p, cur)

\* attempt (540..553, 1329..1341)
attempt(E, p, cur) ==
    LET incoming_pos == cur
        result == parse(E, p, cur)
    IN  IF holds_failure(result) THEN [result EXCEPT !.pos = incoming_pos]
        ELSE result

\* N-ary map (561..589, 1348..1371): the fold over the comma operator runs
\* every parser, left to right; `fail` is overwritten by each failure.
mapN_fold(E, ps, i, cur, rets, failed, fail, tr) ==
    IF i > Len(ps)
    THEN IF failed THEN Failure(fail, cur, tr) ELSE Success(Mapper(rets), cur, tr)
    ELSE LET r == parse(E, ps[i], cur)
             tr2 == tr \o r.tr
         IN  IF r.k = "Success"
             THEN mapN_fold(E, ps, i + 1, r.pos, Append(rets, r.v), failed, fail, tr2)
             ELSE IF r.k = "Failure"
             THEN mapN_fold(E, ps, i + 1, r.pos, Append(rets, NoVal), TRUE, r.e, tr2)
             ELSE [r EXCEPT !.tr = tr2]

mapN(E, ps, cur) == mapN_fold(E, ps, 1, cur, <<>>, FALSE, NoErr, <<>>)

parse(E, p, cur) ==
    CASE p.t = "str" -> str(E, p.s, cur)
      [] p.t \in {"spaces", "to_newline", "ident"} -> scan_loop(E, p.t, cur, cur, <<>>, FALSE)
      [] p.t = "map" -> map(E, p.p, cur)
      [] p.t = "then" -> then(E, p.p, p.q, cur)
      [] p.t = "or" -> or_parse(E, p.p, p.q, cur)
      [] p.t = "or_variant" -> or_parse_variant(E, p.p, p.q, cur)
      [] p.t = "between" -> between(E, p.p, p.q, cur)
      [] p.t = "many" -> many(E, p.p, cur)
      [] p.t = "attempt" -> attempt(E, p.p, cur)
      [] p.t = "mapN" -> mapN(E, p.ps, cur)

(***************************************************************************)
(* The QBuffer iteration (parser.h).  The Context is a QBuffer and         *)
(* FailedAt; a Parser<T>* is the same kind of tree, with                   *)
(*   [t |-> "token", c |-> class]   for ParseToken(fn).                    *)
(* Qt_call(buf, p, cur, fa) is p->operator()(ctx) with Buf.pos() = cur and *)
(* FailedAt = fa; it returns [k, v, e, pos, fa, tr].  A Failure is         *)
(* [expected, got, position, orFail]; position is value-initialised.       *)
(***************************************************************************)
QtFailure(expected, got) ==
    [expected |-> expected, got |-> got, position |-> 0, orFail |-> <<>>]

NewSuccess(v, p, fa, tr) ==
    [k |-> "Success", v |-> v, e |-> QtFailure(<<>>, <<>>), pos |-> p, fa |-> fa, tr |-> tr]

NewFailure(e, p, fa, tr) ==
    [k |-> "Failure", v |-> NoVal, e |-> e, pos |-> p, fa |-> fa, tr |-> tr]

\* A Holder whose destructor sets FailedAt and leaves the buffer where it is.
Holder_NoSeek(pos0, r) ==
    IF r.k = "Failure" THEN [r EXCEPT !.fa = pos0] ELSE r

\* Holder (parser.h 31..57): built at pos0, destroyed when the parser
\* returns r; unless Wrap saw a success it sets FailedAt and seeks back.
Holder(pos0, r) ==
    IF r.k = "Failure" THEN [r EXCEPT !.pos = pos0, !.fa = pos0] ELSE r

\* String(str) (parser.h 420..438)
Qt_String(buf, s, cur, fa) ==
    LET rd == Avail(buf, cur, Len(s))
        tr == Ran("String", s, cur, cur + Len(rd), FALSE)
    IN  IF Len(rd) < Len(s) \/ rd # s
        THEN Holder(cur, NewFailure(QtFailure(s, rd), cur + Len(rd), fa, tr))
        ELSE NewSuccess(rd, cur + Len(rd), fa, tr)

isLetter(c) == c \in {"a", "b", "k", "e", "y", "v", "l", "u"}

\* ParseToken(fn) (parser.h 462..483), fn = isLetter
Qt_ParseToken(buf, cur, fa) ==
    LET tr == Ran("ParseToken", <<>>, cur, Min(cur + 1, Len(buf)), FALSE)
    IN  IF cur >= Len(buf)
        THEN Holder(cur, NewFailure(QtFailure(<<>>, <<"<EOF>">>), cur, fa, tr))
        ELSE IF isLetter(buf[cur + 1])
        THEN NewSuccess(<<buf[cur + 1]>>, cur + 1, fa, tr)
        ELSE Holder(cur, NewFailure(QtFailure(<<>>, <<buf[cur + 1]>>), cur + 1, fa, tr))

RECURSIVE Qt_call(_, _, _, _)
RECURSIVE Qt_Many_loop(_, _, _, _, _, _)
RECURSIVE Qt_Repeated_loop(_, _, _, _, _, _, _, _)
RECURSIVE Qt_Until_loop(_, _, _, _, _, _, _, _)
RECURSIVE Qt_MapN_fold(_, _, _, _, _, _, _, _, _)

\* Parser::Map (parser.h 119..130)
Qt_Map(buf, p, cur, fa) ==
    LET result == Qt_call(buf, p, cur, fa)
    IN  IF result.k = "Success" THEN [result EXCEPT !.v = Mapper(result.v)]
        ELSE Holder(cur, result)

\* Parser::Then (parser.h 133..148)
Qt_Then(buf, p, q, cur, fa) ==
    LET result == Qt_call(buf, p, cur, fa)
    IN  IF result.k = "Success"
        THEN LET r2 == Qt_call(buf, q, result.pos, result.fa)
             IN  Holder(cur, [r2 EXCEPT !.tr = result.tr \o r2.tr])
        ELSE Holder(cur, result)

\* Parser::Or, same type (parser.h 149..163)
Qt_Or(buf, p, q, cur, fa) ==
    LET result == Qt_call(buf, p, cur, fa)
    IN  IF result.k # "Failure" THEN result
        ELSE LET r2 == Qt_call(buf, q, result.pos, result.fa)
             IN  Holder(cur, [r2 EXCEPT !.tr = result.tr \o r2.tr])

\* Parser::Or to std::variant<T, F> (parser.h 164..196): when both fail the
\* Failure returned is the first parser's.
Qt_OrVariant(buf, p, q, cur, fa) ==
    LET thisResult == Qt_call(buf, p, cur, fa)
    IN  IF thisResult.k # "Failure" THEN thisResult
        ELSE LET thatResult == Qt_call(buf, q, thisResult.pos, thisResult.fa)
                 tr == thisResult.tr \o thatResult.tr
             IN  IF thatResult.k # "Failure" THEN [thatResult EXCEPT !.tr = tr]
                 ELSE Holder(cur, NewFailure(thisResult.e, thatResult.pos, thatResult.fa, tr))

\* Parser::Between (parser.h 257..279)
Qt_Between(buf, p, bracket, cur, fa) ==
    LET result == Qt_call(buf, bracket, cur, fa)
    IN  IF result.k # "Success" THEN Holder(cur, result)
        ELSE LET result2 == Qt_call(buf, p, result.pos, result.fa)
                 tr2 == result.tr \o result2.tr
             IN  IF result2.k # "Success" THEN Holder(cur, [result2 EXCEPT !.tr = tr2])
                 ELSE LET result3 == Qt_call(buf, bracket, result2.pos, result2.fa)
                          tr3 == tr2 \o result3.tr
                      IN  IF result3.k # "Success"
                          THEN Holder(cur, [result3 EXCEPT !.tr = tr3])
                          ELSE [result2 EXCEPT !.pos = result3.pos, !.fa = result3.fa,
                                               !.tr = tr3]

\* Parser::Many (parser.h 280..299): no Holder.  A run that succeeds without
\* moving the buffer is repeated for ever.
Qt_Many_loop(buf, p, cur, fa, ret, tr) ==
    LET result == Qt_call(buf, p, cur, fa)
        tr2 == tr \o result.tr
    IN  IF result.k = "Failure" THEN NewSuccess(ret, result.pos, result.fa, tr2)
        ELSE IF result.k # "Success" THEN [result EXCEPT !.tr = tr2]
        ELSE IF result.pos = cur
        THEN [k |-> "Diverge", v |-> NoVal, e |-> QtFailure(<<>>, <<>>), pos |-> cur,
              fa |-> result.fa, tr |-> tr2]
        ELSE Qt_Many_loop(buf, p, result.pos, result.fa, Append(ret, result.v), tr2)

Qt_Many(buf, p, cur, fa) == Qt_Many_loop(buf, p, cur, fa, <<>>, <<>>)

\* Parser::ThenAlso (parser.h 220..250)
Qt_ThenAlso(buf, p, q, cur, fa) ==
    LET firstResult == Qt_call(buf, p, cur, fa)
    IN  IF firstResult.k # "Success" THEN Holder(cur, firstResult)
        ELSE LET secondResult == Qt_call(buf, q, firstResult.pos, firstResult.fa)
                 tr == firstResult.tr \o secondResult.tr
             IN  IF secondResult.k # "Success"
                 THEN Holder(cur, [secondResult EXCEPT !.tr = tr])
                 ELSE NewSuccess(<<firstResult.v, secondResult.v>>, secondResult.pos,
                                 secondResult.fa, tr)

\* Parser::Repeated(n) (parser.h 300..320); pos0 is where the Holder was built.
Qt_Repeated_loop(buf, p, n, pos0, cur, fa, ret, tr) ==
    IF Len(ret) >= n THEN NewSuccess(ret, cur, fa, tr)
    ELSE LET result == Qt_call(buf, p, cur, fa)
             tr2 == tr \o result.tr
         IN  IF result.k # "Success" THEN Holder(pos0, [result EXCEPT !.tr = tr2])
             ELSE Qt_Repeated_loop(buf, p, n, pos0, result.pos, result.fa,
                                   Append(ret, result.v), tr2)

Qt_Repeated(buf, p, n, cur, fa) == Qt_Repeated_loop(buf, p, n, cur, cur, fa, <<>>, <<>>)

\* Parser::Until(terminator) (parser.h 321..352).  A round in which the
\* parser succeeds without moving the buffer and the terminator fails is
\* repeated for ever.
Qt_Until_loop(buf, p, terminator, pos0, cur, fa, ret, tr) ==
    LET result == Qt_call(buf, p, cur, fa)
        tr2 == tr \o result.tr
    IN  IF result.k # "Success" THEN Holder(pos0, [result EXCEPT !.tr = tr2])
        ELSE LET terminatorResult == Qt_call(buf, terminator, result.pos, result.fa)
                 tr3 == tr2 \o terminatorResult.tr
                 ret2 == Append(ret, result.v)
             IN  IF terminatorResult.k = "Success"
                 THEN NewSuccess(ret2, terminatorResult.pos, terminatorResult.fa, tr3)
                 ELSE IF terminatorResult.k # "Failure"
                 THEN [terminatorResult EXCEPT !.tr = tr3]
                 ELSE IF terminatorResult.pos = cur
                 THEN [k |-> "Diverge", v |-> NoVal, e |-> QtFailure(<<>>, <<>>),
                       pos |-> cur, fa |-> terminatorResult.fa, tr |-> tr3]
                 ELSE Qt_Until_loop(buf, p, terminator, pos0, terminatorResult.pos,
                                    terminatorResult.fa, ret2, tr3)

Qt_Until(buf, p, terminator, cur, fa) ==
    Qt_Until_loop(buf, p, terminator, cur, cur, fa, <<>>, <<>>)

\* Map(mapper, parsers...) (parser.h 363..400): the fold runs every parser,
\* `fail` is overwritten by each Failure, and the result is a Failure when
\* `fail` has a non-empty expected or got.
Qt_MapN_fold(buf, ps, i, pos0, cur, fa, rets, fail, tr) ==
    IF i > Len(ps)
    THEN IF fail.expected # <<>> \/ fail.got # <<>>
         THEN Holder(pos0, NewFailure(fail, cur, fa, tr))
         ELSE NewSuccess(Mapper(rets), cur, fa, tr)
    ELSE LET r == Qt_call(buf, ps[i], cur, fa)
             tr2 == tr \o r.tr
         IN  IF r.k = "Success"
             THEN Qt_MapN_fold(buf, ps, i + 1, pos0, r.pos, r.fa, Append(rets, r.v),
                               fail, tr2)
             ELSE IF r.k = "Failure"
             THEN Qt_MapN_fold(buf, ps, i + 1, pos0, r.pos, r.fa, Append(rets, NoVal),
                               r.e, tr2)
             ELSE [r EXCEPT !.tr = tr2]

Qt_MapN(buf, ps, cur, fa) ==
    Qt_MapN_fold(buf, ps, 1, cur, cur, fa, <<>>, QtFailure(<<>>, <<>>), <<>>)

Qt_call(buf, p, cur, fa) ==
    CASE p.t = "str" -> Qt_String(buf, p.s, cur, fa)
      [] p.t = "token" -> Qt_ParseToken(buf, cur, fa)
      [] p.t = "map" -> Qt_Map(buf, p.p, cur, fa)
      [] p.t = "then" -> Qt_Then(buf, p.p, p.q, cur, fa)
      [] p.t = "or" -> Qt_Or(buf, p.p, p.q, cur, fa)
      [] p.t = "or_variant" -> Qt_OrVariant(buf, p.p, p.q, cur, fa)
      [] p.t = "between" -> Qt_Between(buf, p.p, p.q, cur, fa)
      [] p.t = "many" -> Qt_Many(buf, p.p, cur, fa)
      [] p.t = "then_also" -> Qt_ThenAlso(buf, p.p, p.q, cur, fa)
      [] p.t = "repeated" -> Qt_Repeated(buf, p.p, p.n, cur, fa)
      [] p.t = "until" -> Qt_Until(buf, p.p, p.q, cur, fa)
      [] p.t = "mapN" -> Qt_MapN(buf, p.ps, cur, fa)

(***************************************************************************)
(* The parsers the behaviours run                                          *)
(***************************************************************************)
Token == [t |-> "token"]
Str(x) == [t |-> "str", s |-> x]
Spaces == [t |-> "spaces"]
ToNewline == [t |-> "to_newline"]
Ident == [t |-> "ident"]
MapOf(p) == [t |-> "map", p |-> p]
Then(p, q) == [t |-> "then", p |-> p, q |-> q]
Or(p, q) == [t |-> "or", p |-> p, q |-> q]
OrVariant(p, q) == [t |-> "or_variant", p |-> p, q |-> q]
Between(p, bracket) == [t |-> "between", p |-> p, q |-> bracket]
Many(p) == [t |-> "many", p |-> p]
Attempt(p) == [t |-> "attempt", p |-> p]
MapN(ps) == [t |-> "mapN", ps |-> ps]
ThenAlso(p, q) == [t |-> "then_also", p |-> p, q |-> q]
Repeated(p, n) == [t |-> "repeated", p |-> p, n |-> n]
Until(p, terminator) == [t |-> "until", p |-> p, q |-> terminator]

\* Primitive parsers, as sub-parsers of the N-ary map and as brackets.
Leaves == <<Str(<<"a">>), Str(<<"b">>), Ident>>

\* The parsers run on their own and under attempt, many and between.
BaseParsers ==
    <<Str(<<"a">>), Str(<<"b">>), Str(<<"a", "b">>), Spaces, ToNewline, Ident,
      Or(Str(<<"a">>), Str(<<"b">>)),
      Then(Ident, Str(<<"b">>)),
      Then(Str(<<"a">>), Str(<<"b">>)),
      MapOf(Str(<<"a">>)),
      OrVariant(Str(<<"a">>), Str(<<"b">>)),
      Or(Attempt(Str(<<"a">>)), Attempt(Str(<<"b">>)))>>

\* The statement grammar of main (main.cpp 703..711, 1471..1481):
\* map<Statement>(..., ident, colon->between(spaces), to_newline).
colon == Str(<<":">>)
statement == MapN(<<Ident, Between(colon, Spaces), ToNewline>>)

\* let anything = statement; let file = anything->between(spaces)->many()
\* (main.cpp 713..715, 1483..1485)
anything == statement
file == Many(Between(anything, Spaces))

\* The input "key: value", without a newline at the end.
KeyValue == <<"k", "e", "y", ":", " ", "v", "a", "l", "u", "e">>

Contents == SeqsUpTo(Alphabet, MaxLen) \cup {KeyValue}
Residues == {<<>>, <<"?">>}
Junks == {"?", NL, "a"}

(***************************************************************************)
(* The parsing state machine: a Context over one file, as main builds it   *)
(* (main.cpp 717..721, 1487..1491), and the calls made on it.              *)
(***************************************************************************)
E == Env(variant, files, residue, junk)

\* A Context is built for one call (main.cpp 719..721): it is positioned,
\* then one parser or one read runs on it.
Ready == op \in {"init", "goto_pos"}

Init ==
    /\ variant \in {"File", "FileSet"}
    /\ files \in {<<f>> : f \in Contents}
    /\ pos = 0
    /\ residue \in Residues
    /\ junk \in IF variant = "File" THEN {"?"} ELSE Junks
    /\ failbit = {}
    /\ FailedAt = 0
    /\ op = "init"
    /\ arg = <<>>
    /\ out = <<>>

\* The stream of the one file of a Context after a call: failbit is set when
\* a read of the call failed.
StreamFailed(eof) == IF eof THEN {1} ELSE {}

\* p->parse(ctx)
Call(p) ==
    /\ Ready
    /\ op' = "parse"
    /\ arg' = [p |-> p, at |-> pos]
    /\ out' = parse(E, p, pos)
    /\ pos' = out'.pos
    /\ failbit' = failbit \cup StreamFailed(\E i \in 1..Len(out'.tr) : out'.tr[i].eof)
    /\ UNCHANGED <<variant, files, residue, junk, FailedAt>>

Parse == \E i \in 1..Len(BaseParsers) : Call(BaseParsers[i])

ParseAttempt == \E i \in 1..Len(BaseParsers) : Call(Attempt(BaseParsers[i]))

ParseMany == \E i \in 1..Len(BaseParsers) : Call(Many(BaseParsers[i]))

ParseManyAttempt == \E i \in 1..Len(BaseParsers) : Call(Many(Attempt(BaseParsers[i])))

ParseBetween ==
    \E i \in 1..Len(BaseParsers), j \in 1..Len(Leaves) :
        Call(Between(BaseParsers[i], Leaves[j]))

ParseMapN ==
    \E i, j, k \in 1..Len(Leaves) : Call(MapN(<<Leaves[i], Leaves[j], Leaves[k]>>))

ParseStatement == Call(statement)

\* ctx.goto_pos(p)
GotoPos ==
    \E p \in 0..(TotalLength(files) + 1) :
        /\ op = "init"
        /\ op' = "goto_pos"
        /\ arg' = [p |-> p, at |-> pos]
        /\ out' = goto_pos(E, pos, p)
        /\ pos' = out'.pos
        /\ UNCHANGED <<variant, files, residue, junk, failbit, FailedAt>>

\* ctx.read(amount)
Read ==
    \E n \in 0..MaxLen :
        /\ Ready
        /\ op' = "read"
        /\ arg' = [n |-> n, at |-> pos]
        /\ out' = read(E, pos, n)
        /\ pos' = out'.pos
        /\ failbit' = failbit \cup StreamFailed(out'.eof)
        /\ UNCHANGED <<variant, files, residue, junk, FailedAt>>

Next ==
    \/ Parse
    \/ ParseAttempt
    \/ ParseMany
    \/ ParseManyAttempt
    \/ ParseBetween
    \/ ParseMapN
    \/ ParseStatement
    \/ GotoPos
    \/ Read

Spec == Init /\ [][Next]_vars

(***************************************************************************)
(* main (main.cpp 701..722, 1469..1491): the grammar `file` is run from    *)
(* position 0 over the one input file.                                     *)
(***************************************************************************)
MainAlphabet == {"k", ":", NL, "?"}
MainContents == SeqsUpTo(MainAlphabet, MaxMainLen)

InitMain ==
    /\ variant \in {"File", "FileSet"}
    /\ files \in {<<f>> : f \in MainContents}
    /\ pos = 0
    /\ residue \in Residues
    /\ junk \in IF variant = "File" THEN {"?"} ELSE Junks
    /\ failbit = {}
    /\ FailedAt = 0
    /\ op = "init"
    /\ arg = <<>>
    /\ out = <<>>

\* let result = file->parse(ctx)
ParseFile == Call(file)

\* One element of the list on its own: anything->between(spaces)
ParseElement == Call(Between(anything, Spaces))

NextMain ==
    \/ ParseFile
    \/ ParseElement

SpecMain == InitMain /\ [][NextMain]_vars

\* C24: the parse of a finite input with statement.between(spaces).many()
\* terminates, in a result or in a fatal error: the loop of many does not run
\* for ever, i.e. no run of the element succeeds without moving the cursor.
C24_FileGrammarTerminates ==
    (op = "parse" /\ arg.p = file) => out.k \in {"Success", "Failure", "Fatal"}

\* The loop of many went round: file collected a statement and returned at a
\* later element that failed.
C24_Witness ==
    /\ op = "parse"
    /\ arg.p = file
    /\ out.k = "Success"
    /\ Len(out.v) >= 1

(***************************************************************************)
(* Claims about the parsers                                                *)
(***************************************************************************)
IsCall(t) == op = "parse" /\ arg.p.t = t

\* C1: attempt(p) returns exactly the outcome p returns; after a Failure the
\* cursor is back at the starting position s, after a Success it is where p
\* alone leaves it.
C1_AttemptRestoresOnFailure ==
    IsCall("attempt") =>
        LET inner == parse(E, arg.p.p, arg.at)
        IN  /\ out.k = inner.k
            /\ out.v = inner.v
            /\ out.e = inner.e
            /\ out.k = "Failure" => pos = arg.at
            /\ out.k = "Success" => pos = inner.pos

\* attempt ran on a parser that failed after moving the cursor.
C1_Witness ==
    /\ IsCall("attempt")
    /\ out.k = "Failure"
    /\ parse(E, arg.p.p, arg.at).pos > arg.at
    /\ pos = arg.at

\* The run of ps[i], ps[i+1], ... in order from cur that stops after the
\* first sub-parser that does not succeed: [i, r, n], the index of that
\* sub-parser (0 when all succeed), its outcome, and the number of primitive
\* parsers run up to and including it.
RECURSIVE UpToFirstFailure(_, _, _, _, _)
UpToFirstFailure(env, ps, i, cur, n) ==
    IF i > Len(ps) THEN [i |-> 0, r |-> Success(NoVal, cur, <<>>), n |-> n]
    ELSE LET r == parse(env, ps[i], cur)
         IN  IF r.k = "Success"
             THEN UpToFirstFailure(env, ps, i + 1, r.pos, n + Len(r.tr))
             ELSE [i |-> i, r |-> r, n |-> n + Len(r.tr)]

\* C2: the N-ary map short-circuits: when pi is the first sub-parser to fail,
\* no later sub-parser is run, the outcome is pi's Failure, and the cursor is
\* where pi left it.
C2_MapNShortCircuits ==
    IsCall("mapN") =>
        LET first == UpToFirstFailure(E, arg.p.ps, 1, arg.at, 0)
        IN  (first.i > 0 /\ first.r.k = "Failure") =>
                /\ out.k = "Failure"
                /\ out.e = first.r.e
                /\ pos = first.r.pos
                /\ Len(out.tr) = first.n

\* C3: or(literal("a"), literal("b")) on the one-byte input "b" from position
\* 0 returns Success("b") and leaves the cursor at position 1.
C3_OrOnB ==
    (/\ op = "parse"
     /\ arg.p = Or(Str(<<"a">>), Str(<<"b">>))
     /\ files = << <<"b">> >>
     /\ arg.at = 0)
    => (out.k = "Success" /\ out.v = <<"b">> /\ pos = 1)

\* C4: p.between(bracket): when the opening bracket run fails, between
\* returns that Failure and neither p nor the closing bracket is run; when the
\* opening run and p succeed and the closing run fails, between returns a
\* Failure (a value, not an exception).
C4_BetweenFailures ==
    IsCall("between") =>
        LET opening == parse(E, arg.p.q, arg.at)
            inner == parse(E, arg.p.p, opening.pos)
            closing == parse(E, arg.p.q, inner.pos)
        IN  /\ opening.k = "Failure" =>
                (out.k = "Failure" /\ out.e = opening.e /\ out.tr = opening.tr)
            /\ (opening.k = "Success" /\ inner.k = "Success" /\ closing.k = "Failure") =>
                out.k = "Failure"

\* The cursor after j successful runs of p in a row from cur.
RECURSIVE AfterRuns(_, _, _, _)
AfterRuns(env, p, cur, j) ==
    IF j = 0 THEN cur ELSE parse(env, p, AfterRuns(env, p, cur, j - 1)).pos

\* C5: many(p) never returns a Failure; what it returns is Success with the
\* values of the consecutive successful runs of p, in order, up to the first
\* run that fails (the empty list when the first run fails); and when the
\* runs of p reach one that fails, many returns.
C5_ManyNeverFails ==
    IsCall("many") =>
        LET p == arg.p.p
            n == Len(out.v)
        IN  /\ out.k # "Failure"
            /\ out.k = "Success" =>
                /\ \A j \in 1..n :
                      LET r == parse(E, p, AfterRuns(E, p, arg.at, j - 1))
                      IN  r.k = "Success" /\ r.v = out.v[j]
                /\ parse(E, p, AfterRuns(E, p, arg.at, n)).k = "Failure"
            /\ \A m \in 0..(TotalLength(files) + 1) :
                  (/\ \A j \in 1..m :
                         LET r == parse(E, p, AfterRuns(E, p, arg.at, j - 1))
                         IN  r.k = "Success" /\ r.pos > AfterRuns(E, p, arg.at, j - 1)
                   /\ parse(E, p, AfterRuns(E, p, arg.at, m)).k = "Failure")
                  => (out.k = "Success" /\ Len(out.v) = m)

\* many collected two values and stopped at a failing run.
C5_Witness ==
    /\ IsCall("many")
    /\ out.k = "Success"
    /\ Len(out.v) = 2
    /\ out.v[1] # out.v[2]

\* C6: many(attempt(p)), where p fails where it is run, returns Success with
\* the empty list and leaves the cursor at the starting position.  (A p that
\* fails at every position fails at s.)
C6_ManyAttemptConsumesNothing ==
    (/\ IsCall("many")
     /\ arg.p.p.t = "attempt"
     /\ parse(E, arg.p.p.p, arg.at).k = "Failure")
    => (out.k = "Success" /\ out.v = <<>> /\ pos = arg.at)

\* many(attempt(p)) ran from a position s > 0 on a p that returns a Failure at
\* every position holding a byte of the input, and that moves the cursor
\* before failing.
C6_Witness ==
    /\ IsCall("many")
    /\ arg.p.p.t = "attempt"
    /\ arg.at > 0
    /\ arg.at < TotalLength(files)
    /\ \A q \in 0..(TotalLength(files) - 1) : parse(E, arg.p.p.p, q).k = "Failure"
    /\ parse(E, arg.p.p.p, arg.at).pos > arg.at
    /\ out.k = "Success"

\* C9: read(n) returns the n bytes at the current position and moves the
\* cursor on by n; so a successful literal(s) leaves it advanced by len(s).
\* (Stated for reads of at least one byte that stay inside the input, with
\* nothing after the buffer.)
C9_ReadAdvances ==
    /\ (/\ op = "read"
        /\ arg.n >= 1
        /\ arg.at + arg.n <= TotalLength(files)
        /\ residue = <<>>) =>
          /\ out.k = "ok"
          /\ out.v = SubSeq(files[1], arg.at + 1, arg.at + arg.n)
          /\ pos = arg.at + arg.n
    /\ (IsCall("str") /\ out.k = "Success") => pos = arg.at + Len(arg.p.s)

\* C10: literal(s) at s0 succeeds with value s iff the len(s) bytes at s0 are
\* exactly s; otherwise it returns Failure with position s0 and messages
\* [Unexpected(bytes read), Expected(s)].
C10_LiteralOutcome ==
    IsCall("str") =>
        LET s == arg.p.s
            matches == /\ arg.at + Len(s) <= TotalLength(files)
                       /\ SubSeq(files[1], arg.at + 1, arg.at + Len(s)) = s
        IN  /\ matches <=> (out.k = "Success" /\ out.v = s)
            /\ ~matches =>
                  /\ out.k = "Failure"
                  /\ out.e.position = arg.at
                  /\ Len(out.e.messages) = 2
                  /\ out.e.messages[1].tag = "UnexpectedString"
                  /\ out.e.messages[1].val =
                        SubSeq(files[1], arg.at + 1,
                               Min(arg.at + Len(s), TotalLength(files)))
                  /\ out.e.messages[2] = [tag |-> "ExpectedString", val |-> s]

Primitives == {"str", "spaces", "to_newline", "ident"}

\* C11: a primitive run on input that ends before it is satisfied raises no
\* fatal error; literal(s) run with fewer than len(s) bytes left before the
\* end of the input returns a Failure as its value.
C11_EndOfInputNotFatal ==
    (op = "parse" /\ arg.p.t \in Primitives /\ arg.at <= TotalLength(files)) =>
        /\ out.k # "Fatal"
        /\ (arg.p.t = "str" /\ arg.at + Len(arg.p.s) > TotalLength(files)) =>
              out.k = "Failure"

\* C13: when many(p) returns, the cursor is where the final, failing run of p
\* left it: many does not rewind.
C13_ManyNoRewind ==
    (IsCall("many") /\ out.k = "Success") =>
        LET from == AfterRuns(E, arg.p.p, arg.at, Len(out.v))
            last == parse(E, arg.p.p, from)
        IN  last.k = "Failure" /\ pos = last.pos

\* many collected a value and its failing run moved the cursor before it
\* failed; the cursor stayed there.
C13_Witness ==
    /\ IsCall("many")
    /\ out.k = "Success"
    /\ Len(out.v) >= 1
    /\ pos > AfterRuns(E, arg.p.p, arg.at, Len(out.v))

\* C15: the statement grammar run from position 0 over the single file
\* "key: value" returns Success with lhs = "key" and rhs = "value" and leaves
\* the cursor at the end of the input.
C15_KeyValueStatement ==
    (op = "parse" /\ arg.p = statement /\ arg.at = 0 /\ files = <<KeyValue>>) =>
        /\ out.k = "Success"
        /\ out.v = Mapper(<<SubSeq(KeyValue, 1, 3), <<":">>, SubSeq(KeyValue, 6, 10)>>)
        /\ pos = Len(KeyValue)

InRange(p) == 0 <= p /\ p <= TotalLength(files) + 1

RECURSIVE LineEnd(_, _)
LineEnd(f, from) ==
    IF from >= Len(f) \/ f[from + 1] = NL THEN Min(from, Len(f)) ELSE LineEnd(f, from + 1)

\* C21: to_newline run from a position s returns Success with exactly the
\* bytes from s up to, and without, the next '\n' or the end of the input,
\* and leaves the cursor on that '\n' or at the end of the input, also when
\* there is no '\n' at or after s.
C21_ToNewline ==
    (IsCall("to_newline") /\ arg.at <= TotalLength(files)) =>
        LET stop == LineEnd(files[1], arg.at)
        IN  /\ out.k = "Success"
            /\ out.v = SubSeq(files[1], arg.at + 1, stop)
            /\ pos = stop

(***************************************************************************)
(* The position state machine: a lone File (main.cpp 31..188), or a        *)
(* FileSet that files are added to (part_000 228..235), and the position   *)
(* queries made on them.                                                   *)
(***************************************************************************)
FileContents == SeqsUpTo(FileAlphabet, MaxLen)
AddedContents == SeqsUpTo(FileAlphabet, MaxAddLen)

InitFiles ==
    /\ \/ variant = "File" /\ files \in {<<f>> : f \in FileContents}
       \/ variant = "FileSet" /\ files = <<>>
    /\ pos = 0
    /\ residue = <<>>
    /\ junk \in {"?", NL}
    /\ failbit = {}
    /\ FailedAt = 0
    /\ op = "init"
    /\ arg = <<>>
    /\ out = <<>>

\* Queries are made on a File or FileSet as built; each leaves it as it is.
Built == op \in {"init", "add_file"}

Query(name, a, result, failed) ==
    /\ Built
    /\ op' = name
    /\ arg' = a
    /\ out' = result
    /\ failbit' = failbit \cup failed
    /\ UNCHANGED <<variant, files, pos, residue, junk, FailedAt>>

AddFile ==
    \E f \in IF Len(files) = 0 THEN FileContents ELSE AddedContents :
        /\ variant = "FileSet"
        /\ Built
        /\ Len(files) < MaxFiles
        /\ files' = add_file(files, f)
        /\ op' = "add_file"
        /\ arg' = [f |-> f]
        /\ out' = <<>>
        /\ UNCHANGED <<variant, pos, residue, junk, failbit, FailedAt>>

FileForPos ==
    \E p \in 0..(TotalLength(files) + 1) :
        /\ variant = "FileSet"
        /\ Query("file_for_pos", [p |-> p], file_for_pos(files, p), {})

MapToLocalFile ==
    \E p \in 0..(TotalLength(files) + 1) :
        /\ variant = "FileSet"
        /\ Query("map_to_local_file", [p |-> p], map_to_local_file(files, p), {})

MapFromLocalFile ==
    \E i \in 1..Len(files) : \E x \in 0..Len(files[i]) :
        /\ variant = "FileSet"
        /\ Query("map_from_local_file", [file |-> i, x |-> x],
                 map_from_local_file(files, i, x), {})

PosToLineCol ==
    \E i \in 1..Len(files) : \E p \in 0..(Len(files[i]) + 1) :
        Query("pos_to_line_col", [file |-> i, p |-> p],
              pos_to_line_col(variant, files[i], p, junk),
              IF p > Len(files[i]) THEN {i} ELSE {})

LineColToPos ==
    \E i \in 1..Len(files) : \E line, col \in 1..(Len(files[i]) + 2) :
        LET r == line_col_to_pos(variant, files[i], line, col, junk)
        IN  Query("line_col_to_pos", [file |-> i, line |-> line, col |-> col], r,
                  IF r.k = "ok" /\ r.pos <= Len(files[i]) THEN {} ELSE {i})

LineStartAndEndForPos ==
    \E i \in 1..Len(files) : \E p \in 0..(Len(files[i]) + 1) :
        LET r == line_start_and_end_for_pos(variant, files[i], p, junk)
        IN  Query("line_start_and_end_for_pos", [file |-> i, p |-> p], r,
                  IF r.k = "ok" /\ r.end + 1 <= Len(files[i]) THEN {} ELSE {i})

\* fileset.render_diagnostic(Diagnostic{.highlight_span = {start, end}})
RenderDiagnostic ==
    \E start \in 0..(TotalLength(files) + 1) : \E end \in start..(start + MaxSpan) :
        LET r == render_diagnostic(E, start, end)
        IN  /\ variant = "FileSet"
            /\ Query("render_diagnostic", [start |-> start, end |-> end], r,
                     IF r.eof THEN {file_for_pos(files, start)} ELSE {})

\* file->read_pos(p) on a lone File, fileset.read_byte(p) on a FileSet; reads
\* follow one another on the same streams.
ReadByte ==
    \E p \in 0..(TotalLength(files) + 1) :
        LET i == IF variant = "File" THEN 1 ELSE file_for_pos(files, p)
            r == IF i = THROW THEN read_byte(E, p)
                 ELSE read_pos_on(E, failbit, i,
                                  IF variant = "File" THEN p ELSE map_to_local_file(files, p))
        IN  /\ Built \/ op = "read_byte"
            /\ op' = "read_byte"
            /\ arg' = [p |-> p]
            /\ out' = r
            /\ failbit' = failbit \cup (IF r.eof THEN {i} ELSE {})
            /\ UNCHANGED <<variant, files, pos, residue, junk, FailedAt>>

NextFiles ==
    \/ AddFile
    \/ FileForPos
    \/ MapToLocalFile
    \/ MapFromLocalFile
    \/ PosToLineCol
    \/ LineColToPos
    \/ LineStartAndEndForPos
    \/ RenderDiagnostic
    \/ ReadByte

SpecFiles == InitFiles /\ [][NextFiles]_vars

(***************************************************************************)
(* Claims about positions                                                  *)
(***************************************************************************)
\* C7: for every file Fi of a FileSet and local position x in 0..length(Fi),
\* map_to_local_file(map_from_local_file(Fi, x)) = x and
\* file_for_pos(map_from_local_file(Fi, x)) is Fi.  (Stated for FileSets
\* without empty files.)
C7_LocalGlobalRoundTrip ==
    (op = "map_from_local_file" /\ \A i \in 1..Len(files) : Len(files[i]) > 0) =>
        /\ map_to_local_file(files, out) = arg.x
        /\ file_for_pos(files, out) = arg.file

\* The newlines among the first p bytes of f, by index.
NewlinesBefore(f, p) == {j \in 1..p : f[j] = NL}

\* The index of the last newline among the first p bytes of f (0 when none).
LastNewlineBefore(f, p) ==
    IF NewlinesBefore(f, p) = {} THEN 0
    ELSE CHOOSE j \in NewlinesBefore(f, p) : \A i \in NewlinesBefore(f, p) : i <= j

\* C8: for p in 0..length(f), pos_to_line_col(p) is the 1-based (line, col)
\* with line = 1 + the newlines before p and col = 1 + the bytes since the
\* last newline (or the start), and line_col_to_pos of that pair is p.
C8_LineColRoundTrip ==
    (op = "pos_to_line_col" /\ arg.p <= Len(files[arg.file])) =>
        LET f == files[arg.file]
        IN  /\ out.k = "ok"
            /\ out.line = 1 + Cardinality(NewlinesBefore(f, arg.p))
            /\ out.col = 1 + (arg.p - LastNewlineBefore(f, arg.p))
            /\ line_col_to_pos(variant, f, out.line, out.col, junk)
                  = [k |-> "ok", pos |-> arg.p]

\* pos_to_line_col ran on the position right after a newline that is not the
\* first byte, and gave column 1 of the next line.
C8_Witness ==
    /\ op = "pos_to_line_col"
    /\ arg.p >= 2
    /\ arg.p <= Len(files[arg.file])
    /\ files[arg.file][arg.p] = NL
    /\ out.line = 2
    /\ out.col = 1

\* The bytes of the files of fs[1..n], in list order.
RECURSIVE Flat(_, _)
Flat(fs, n) == IF n = 0 THEN <<>> ELSE Flat(fs, n - 1) \o fs[n]

\* C12: a read of the byte at pos == length returns the end-of-input sentinel
\* as a value, whatever reads came before; a lone File returns it past the
\* end too; a read at pos < length returns the byte at that position, also
\* after reads at the end.
C12_ReadAtEndIsEndOfInput ==
    (op = "read_byte" /\ (arg.p <= TotalLength(files) \/ variant = "File")) =>
        /\ out.k = "ok"
        /\ arg.p >= TotalLength(files) => out.v = EOF
        /\ arg.p < TotalLength(files) => out.v = Flat(files, Len(files))[arg.p + 1]

AddFileFrame ==
    /\ \A P \in 0..TotalLength(files) :
          /\ file_for_pos(files', P) = file_for_pos(files, P)
          /\ map_to_local_file(files', P) = map_to_local_file(files, P)
    /\ TotalLength(files') = TotalLength(files) + Len(arg'.f)

\* C18 as stated: after any sequence of add_file calls (also none), one more
\* add_file leaves file_for_pos(P) and map_to_local_file(P) as they were for
\* every P <= the total length before, and adds the new length to the total.
C18_AddFileFrameAnyFileSet == [][op' = "add_file" => AddFileFrame]_vars

\* C18, for a FileSet that holds a file already: then add_file leaves
\* file_for_pos(P) and map_to_local_file(P) as they were for every P <= the
\* total length before, and adds the new length to the total.
C18_AddFileFrame == [][(op' = "add_file" /\ Len(files) > 0) => AddFileFrame]_vars

\* A second, non-empty file was added to a FileSet of one non-empty file.
C18_Witness ==
    /\ op = "add_file"
    /\ Len(files) = 2
    /\ Len(files[1]) > 0
    /\ files[2] = arg.f
    /\ Len(arg.f) > 0

\* Some position of f has the 1-based line and column (line, col).
HasLineCol(f, line, col) ==
    \E p \in 0..Len(f) :
        /\ line = 1 + Cardinality(NewlinesBefore(f, p))
        /\ col = 1 + (p - LastNewlineBefore(f, p))

\* C20: line_col_to_pos(line, col) with a pair that no position of the file
\* maps to ends by raising the fatal error: it neither runs for ever nor
\* returns a position.
C20_LineColUnreachableRaises ==
    (op = "line_col_to_pos" /\ ~HasLineCol(files[arg.file], arg.line, arg.col)) =>
        out.k = "Fatal"

\* C22: for pos in 0..length, line_start_and_end_for_pos(pos) returns
\* (start, end): start the offset of the first byte of the line that holds
\* pos (0 for the first line), end the offset of the '\n' that ends the line
\* (the length of the file when the last line has none); so start <= pos <=
\* end.
C22_LineStartAndEnd ==
    (op = "line_start_and_end_for_pos" /\ arg.p <= Len(files[arg.file])) =>
        LET f == files[arg.file]
        IN  /\ out.k = "ok"
            /\ out.start = LastNewlineBefore(f, arg.p)
            /\ out.end = LineEnd(f, arg.p)

\* C23: render_diagnostic for a span (start, end) inside the FileSet prints a
\* caret line of exactly startCol - 1 leading spaces (counted from the start
\* of the line, or from the start of the text after the gutter) and exactly
\* endCol - startCol carets, (startLine, startCol) and (endLine, endCol)
\* being the line and column of the two ends; the number of carets is never
\* taken from endCol < startCol.
C23_RenderDiagnosticCarets ==
    (op = "render_diagnostic" /\ Len(files) > 0 /\ arg.end <= TotalLength(files)) =>
        /\ out.k = "ok"
        /\ out.endCol >= out.startCol
        /\ out.spaces \in {out.startCol - 1, out.gutter + (out.startCol - 1)}
        /\ out.carets = out.endCol - out.startCol

(***************************************************************************)
(* The QBuffer state machine: Parser::Parse (parser.h 109..115) opens a    *)
(* Context over the bytes of a string; a parser is called on it.           *)
(***************************************************************************)
QtLeaves == <<Str(<<"a">>), Str(<<"b">>), Str(<<"a", "b">>), Token>>

\* The parsers repeated by Many.
QtElements ==
    <<Str(<<"a">>), Str(<<"a", "b">>), Token,
      Then(Str(<<"a">>), Str(<<"b">>)),
      Or(Str(<<"a">>), Str(<<"b">>)),
      Many(Token)>>

InitQt ==
    /\ variant = "Qt"
    /\ files \in {<<f>> : f \in Contents}
    /\ pos = 0
    /\ residue = <<>>
    /\ junk = "?"
    /\ failbit = {}
    /\ FailedAt = 0
    /\ op = "init"
    /\ arg = <<>>
    /\ out = <<>>

\* (*p)(ctx)
QtCall(p) ==
    /\ op \in {"init", "seek"}
    /\ op' = "parse"
    /\ arg' = [p |-> p, at |-> pos, fa |-> FailedAt]
    /\ out' = Qt_call(files[1], p, pos, FailedAt)
    /\ pos' = out'.pos
    /\ FailedAt' = out'.fa
    /\ UNCHANGED <<variant, files, residue, junk, failbit>>

QtParse == \E i \in 1..Len(QtLeaves) : QtCall(QtLeaves[i])

QtParseMap == \E i \in 1..Len(QtLeaves) : QtCall(MapOf(QtLeaves[i]))

QtParseThen == \E i, j \in 1..Len(QtLeaves) : QtCall(Then(QtLeaves[i], QtLeaves[j]))

QtParseOr == \E i, j \in 1..Len(QtLeaves) : QtCall(Or(QtLeaves[i], QtLeaves[j]))

QtParseOrVariant ==
    \E i, j \in 1..Len(QtLeaves) : QtCall(OrVariant(QtLeaves[i], QtLeaves[j]))

QtParseBetween ==
    \E i, j \in 1..Len(QtLeaves) : QtCall(Between(QtLeaves[i], QtLeaves[j]))

QtParseMany == \E i \in 1..Len(QtElements) : QtCall(Many(QtElements[i]))

QtParseThenAlso ==
    \E i, j \in 1..Len(QtLeaves) : QtCall(ThenAlso(QtLeaves[i], QtLeaves[j]))

QtParseRepeated ==
    \E i \in 1..Len(QtLeaves) : \E n \in 1..MaxRepeat : QtCall(Repeated(QtLeaves[i], n))

QtParseUntil ==
    \E i, j \in 1..Len(QtLeaves) : QtCall(Until(QtLeaves[i], QtLeaves[j]))

\* GoIdentifier (parser.h 488..495): Map(mapper, ParseToken(..), ParseToken(..)->Many())
GoIdentifier == MapN(<<Token, Many(Token)>>)

QtParseMapN ==
    \/ \E i, j \in 1..Len(QtLeaves) : QtCall(MapN(<<QtLeaves[i], QtLeaves[j]>>))
    \/ QtCall(GoIdentifier)

\* ctx.Buf.seek(p)
QtSeek ==
    \E p \in 0..Len(files[1]) :
        /\ op = "init"
        /\ op' = "seek"
        /\ arg' = [p |-> p, at |-> pos]
        /\ out' = <<>>
        /\ pos' = p
        /\ UNCHANGED <<variant, files, residue, junk, failbit, FailedAt>>

NextQt ==
    \/ QtParse
    \/ QtParseMap
    \/ QtParseThen
    \/ QtParseOr
    \/ QtParseOrVariant
    \/ QtParseBetween
    \/ QtParseMany
    \/ QtParseThenAlso
    \/ QtParseRepeated
    \/ QtParseUntil
    \/ QtParseMapN
    \/ QtSeek

SpecQt == InitQt /\ [][NextQt]_vars

(***************************************************************************)
(* Claims about the combinators, checked on the QBuffer iteration          *)
(***************************************************************************)
\* C14: the heterogeneous or(p, q): when p succeeds the result is p's value
\* and q is not run; when p fails and q, run from where p left the cursor,
\* succeeds, the result is q's value; when both fail the result is a Failure
\* that is q's (its position and what it reports), followed by exactly one
\* nested entry holding p's error.
C14_OrVariantNesting ==
    (op = "parse" /\ arg.p.t = "or_variant") =>
        LET first == Qt_call(files[1], arg.p.p, arg.at, arg.fa)
            second == Qt_call(files[1], arg.p.q, first.pos, first.fa)
        IN  /\ first.k = "Success" =>
                (out.k = "Success" /\ out.v = first.v /\ out.tr = first.tr)
            /\ (first.k = "Failure" /\ second.k = "Success") =>
                (out.k = "Success" /\ out.v = second.v)
            /\ (first.k = "Failure" /\ second.k = "Failure") =>
                /\ out.k = "Failure"
                /\ out.e.position = second.e.position
                /\ out.e.expected = second.e.expected
                /\ out.e.got = second.e.got
                /\ out.e.orFail = <<first.e>>

\* C16: then(p, q): when p fails the result is p's error and q is not run;
\* when p succeeds, q is run from where p ended and the result of then is q's
\* outcome, with the cursor where q left it.
C16_Then ==
    (op = "parse" /\ arg.p.t = "then") =>
        LET first == Qt_call(files[1], arg.p.p, arg.at, arg.fa)
            second == Qt_call(files[1], arg.p.q, first.pos, first.fa)
        IN  /\ first.k = "Failure" =>
                (out.k = "Failure" /\ out.e = first.e /\ out.tr = first.tr)
            /\ first.k = "Success" =>
                /\ out.k = second.k
                /\ out.v = second.v
                /\ out.e = second.e
                /\ out.tr = first.tr \o second.tr
                /\ pos = second.pos

\* The parsers that build a Holder on entry.
HolderGuarded ==
    {"str", "token", "map", "then", "or", "or_variant", "between", "then_also",
     "repeated", "until", "mapN"}

\* Whether the run of a String or ParseToken recorded in a trace entry matched.
Matched(buf, r) ==
    IF r.leaf = "String" THEN r.to - r.at = Len(r.s) /\ SubSeq(buf, r.at + 1, r.to) = r.s
    ELSE r.to = r.at + 1 /\ isLetter(buf[r.to])

\* Where the last String or ParseToken run by a parser left the buffer: after
\* the bytes it matched, or back where it began (its own Holder) if it failed.
LeftAt(buf, tr) ==
    LET r == tr[Len(tr)] IN IF Matched(buf, r) THEN r.to ELSE r.at

\* C25: a Holder-guarded parser that returns a Failure leaves the buffer at the
\* position it had when the parser was entered and sets FailedAt to that
\* position; when it returns a Success its Holder does not move the buffer,
\* which stays where the last parser run inside it left it.
C25_HolderRestores ==
    (op = "parse" /\ arg.p.t \in HolderGuarded) =>
        /\ out.k = "Failure" => (pos = arg.at /\ FailedAt = arg.at)
        /\ out.k = "Success" => (pos = LeftAt(files[1], out.tr) /\ pos >= arg.at)

\* An N-ary Map entered past the start of the buffer fails after one of its
\* parsers has read further.
C25_Witness ==
    /\ op = "parse"
    /\ arg.p.t = "mapN"
    /\ out.k = "Failure"
    /\ arg.at > 0
    /\ arg.fa # arg.at
    /\ \E i \in 1..Len(out.tr) : out.tr[i].to > arg.at
    /\ pos = arg.at
    /\ FailedAt = arg.at

====
